---- MODULE Spec2Model ----
(***************************************************************************)
(* Account lifecycle and authorization engine of the zivpn telegram bot    *)
(* (user_manager.py, driven by bot.py).  The three JSON documents are the  *)
(* state; every ledger, sweeper and allowlist function is one action.      *)
(***************************************************************************)
EXTENDS Integers, Sequences, FiniteSets, TLC

VARIABLES
    cfgFile,      \* /etc/zivpn/config.json            [kind, other, list]
    trkFile,      \* /etc/zivpn/manager_tracking.json  [kind, list]
    mgrFile,      \* /etc/zivpn/bot_managers.json      [kind, list]
    defaultList,  \* DEFAULT_CONFIG["auth"]["config"], the in-process list object
    backupDir,    \* the files of the directory backups/, by path
    now,          \* datetime.datetime.now(), in clock ticks
    last,         \* history: the last call, its inputs, result and pre-state
    prev,         \* history: summary of the call before the last one
    job,          \* the scheduler's sweep in progress: its position and locals
    cmd,          \* a handler's ledger call in progress: its position and locals
    handlers      \* the /add handler coroutines on the event loop, by update

vars ==
    <<cfgFile, trkFile, mgrFile, defaultList, backupDir, now, last, prev, job, cmd,
      handlers>>

----------------------------------------------------------------------------
(* Identities and inputs *)

\* ADMIN_TELEGRAM_ID of the environment, parsed once (bot.py) and on every
\* permission check (user_manager.py).
ADMIN_ID == 999

Managers == {1001, 1002}
Actors == {ADMIN_ID} \cup Managers
\* The actors that add accounts (1002 owns a hand-written record only).
Creators == {ADMIN_ID, 1001}

\* Identifiers a caller may pass; "" is the empty argument.
Usernames == {"", "root", "Root", "neri", "alice"}
\* Identifiers callers ask to add ("neri" is a seed identifier).
NewUsernames == Usernames \ {"neri"}

\* str.lower() on the identifiers of the model.
Lower(s) == IF s = "Root" THEN "root" ELSE s

\* The order of str comparison on lower-cased identifiers.
NameOrder == <<"", "alice", "neri", "root">>
NameRank(s) == CHOOSE i \in 1..Len(NameOrder) : NameOrder[i] = Lower(s)

----------------------------------------------------------------------------
(* Clock and date strings *)

TicksPerSecond == 2
TickDays == 31
MaxTicks == 1
ValidDays == 30

Days(n) == n * 86400 * TicksPerSecond
TickStep == Days(TickDays) + 1
MaxNow == MaxTicks * TickStep

\* strftime("%Y-%m-%d %H:%M:%S"): the string keeps whole seconds only; a
\* well-formed date string is represented by its count of seconds.
strftime(t) == t \div TicksPerSecond
\* A date string strptime rejects with ValueError.
Malformed == -1
WellFormed(s) == s >= 0
\* strptime of a well-formed string: the instant at the start of that second.
strptime(s) == s * TicksPerSecond

----------------------------------------------------------------------------
(* Sequence helpers (Python list operations) *)

Range(s) == {s[i] : i \in 1..Len(s)}
InList(x, s) == \E i \in 1..Len(s) : s[i] = x
\* Mutant of ListRemove: nothing is removed.
ListRemove_kept(s, x) == s

\* list.remove(x): drops the first occurrence
FirstIndex(x, s) == CHOOSE i \in 1..Len(s) : s[i] = x /\ \A j \in 1..(i-1) : s[j] # x
RemoveAt(s, i) == SubSeq(s, 1, i-1) \o SubSeq(s, i+1, Len(s))
ListRemove(s, x) == RemoveAt(s, FirstIndex(x, s))

----------------------------------------------------------------------------
(* Persistent store *)

DEFAULT_CONFIG == [other |-> "default", list |-> defaultList]
\* The seed identifier list of DEFAULT_CONFIG as the module is imported
\* (abbreviated to its first two identifiers).
SeedList == <<"root", "neri">>

ConfigDoc(data) == [kind |-> "valid", other |-> data.other, list |-> data.list]
NoConfig(kind) == [kind |-> kind, other |-> "", list |-> <<>>]
ListDoc(list) == [kind |-> "valid", list |-> list]
NoList(kind) == [kind |-> kind, list |-> <<>>]

\* Mutant of _save_data: the document is rewritten also when the write is
\* reported to have failed.
_save_data_anyway(file, data, ok) == ConfigDoc(data)

\* _save_data: a full overwrite, or no change when the write fails.
_save_data(file, data, ok) == IF ok THEN ConfigDoc(data) ELSE file

\* _load_data: the parsed document, or DEFAULT_CONFIG.copy() (a shallow copy:
\* its "auth" dict and identifier list are the module's own objects).
_load_data(ok) ==
    CASE cfgFile.kind = "absent" ->
            [data |-> DEFAULT_CONFIG, shared |-> TRUE,
             file |-> _save_data(cfgFile, DEFAULT_CONFIG, ok)]
      [] cfgFile.kind \in {"empty", "invalid"} ->
            [data |-> DEFAULT_CONFIG, shared |-> TRUE, file |-> cfgFile]
      [] OTHER ->
            [data |-> [other |-> cfgFile.other, list |-> cfgFile.list],
             shared |-> FALSE, file |-> cfgFile]

_save_tracking_data(file, data, ok) == IF ok THEN ListDoc(data) ELSE file

\* _load_tracking_data: entries missing a required key are dropped.
_load_tracking_data(ok) ==
    CASE trkFile.kind = "absent" ->
            [data |-> <<>>, file |-> _save_tracking_data(trkFile, <<>>, ok)]
      [] trkFile.kind \in {"empty", "invalid"} ->
            [data |-> <<>>, file |-> trkFile]
      [] OTHER ->
            [data |-> SelectSeq(trkFile.list, LAMBDA e : e.complete),
             file |-> trkFile]

_save_bot_managers(file, data, ok) == IF ok THEN ListDoc(data) ELSE file

\* An allowlist entry that is not an integer.
NotAnInt == -1
_load_bot_managers(ok) ==
    CASE mgrFile.kind = "absent" ->
            [data |-> <<>>, file |-> _save_bot_managers(mgrFile, <<>>, ok)]
      [] mgrFile.kind \in {"empty", "invalid"} ->
            [data |-> <<>>, file |-> mgrFile]
      [] OTHER ->
            [data |-> SelectSeq(mgrFile.list, LAMBDA x : x # NotAnInt),
             file |-> mgrFile]

\* _restart_zivpn_service: the reload collaborator's answer.
_restart_zivpn_service(ok) == ok

----------------------------------------------------------------------------
(* Tracking records *)

Entry(u, c, cd, ed) ==
    [username |-> u, creator_id |-> c, creation_date |-> cd,
     expiration_date |-> ed, complete |-> TRUE]

Tracked(u, tracking) == \E i \in 1..Len(tracking) : tracking[i].username = u
\* the first entry of that username (next(...) / the for loop with break)
TrackIndex(u, tracking) ==
    CHOOSE i \in 1..Len(tracking) :
        tracking[i].username = u /\ \A j \in 1..(i-1) : tracking[j].username # u

\* Which writes of one call succeed (a failed write leaves its file as it was)
\* and whether the reload does.
Writes == [cfg : BOOLEAN, trk : BOOLEAN, mgr : BOOLEAN, rl : BOOLEAN]
NoFaults == {w \in Writes : w.cfg /\ w.trk /\ w.mgr}
\* Every write and the reload succeed.
AllOk == [cfg |-> TRUE, trk |-> TRUE, mgr |-> TRUE, rl |-> TRUE]
\* The outcomes that matter to a call of the ledger and of the allowlist.
LedgerWrites == {w \in Writes : w.mgr /\ (w.rl \/ (w.cfg /\ w.trk))}
AllowlistWrites == {w \in Writes : w.cfg /\ w.trk /\ w.rl}

\* What a call of create_backup looked at and copied (none, for other calls).
NoBackup == [tried |-> {}, copied |-> {}]

\* The result of a call: the files and default list it leaves, and what it returns.
Result(cfg, trk, dflt, ok, outcome, reloads, wfail, named) ==
    [cfg |-> cfg, trk |-> trk, mgr |-> mgrFile, dflt |-> dflt, ok |-> ok,
     outcome |-> outcome, reloads |-> reloads, wfail |-> wfail, named |-> named,
     rlfail |-> FALSE, dir |-> backupDir, bak |-> NoBackup, ret |-> <<>>]

\* Mutant of Saved: one successful write is enough.
Saved_either(save_config_ok, save_tracking_ok) == save_config_ok \/ save_tracking_ok

\* "save_config_ok and save_tracking_ok": what add, delete and the sweep test
\* before they reload and return success.
Saved(save_config_ok, save_tracking_ok) == save_config_ok /\ save_tracking_ok

\* Mutant of Succeeded: a failed reload fails the operation.
Succeeded_reloaded(saved, restarted) == saved /\ restarted

\* What add, delete and the sweep return once the saves are done: the reload's
\* answer is logged and dropped.
Succeeded(saved, restarted) == saved

----------------------------------------------------------------------------
(* Account ledger *)

\* Mutant of IsProtected: the guard on root is missing.
IsProtected_off(username) == FALSE

\* delete_user and the sweep exempt the identifier whose lower-cased form is "root".
IsProtected(username) == Lower(username) = "root"

\* Mutant of MayManage: the permission check lets every actor through.
MayManage_any(original_creator_id, admin_id) == TRUE

\* is_creator or is_main_admin (delete_user, renew_user)
MayManage(original_creator_id, admin_id) ==
    original_creator_id = admin_id \/ admin_id = ADMIN_ID

\* Mutant of NewEntry: the window is a day short.
NewEntry_short(username, creator_id, t) ==
    Entry(username, creator_id, strftime(t), strftime(t + Days(ValidDays - 1)))

\* add_user's tracking record: dates computed from now, formatted as strings.
NewEntry(username, creator_id, t) ==
    Entry(username, creator_id, strftime(t), strftime(t + Days(ValidDays)))

\* Mutant of Upsert: a record is appended whatever the ledger holds.
Upsert_append(tracking, username, creator_id, t) ==
    Append(tracking, NewEntry(username, creator_id, t))

\* add_user: update the existing entry of that username in place, or append.
Upsert(tracking, username, creator_id, t) ==
    IF Tracked(username, tracking)
    THEN LET i == TrackIndex(username, tracking)
         IN [tracking EXCEPT ![i] =
                [@ EXCEPT !.creator_id = creator_id,
                          !.creation_date = strftime(t),
                          !.expiration_date = strftime(t + Days(ValidDays))]]
    ELSE Append(tracking, NewEntry(username, creator_id, t))

\* Mutant of MayDropUntracked: any caller may delete an identifier that has
\* no tracking record.
MayDropUntracked_any(admin_id) == TRUE

\* delete_user, for an identifier in the config list without a tracking
\* record: "admin_id == original_admin_id".
MayDropUntracked(admin_id) == admin_id = ADMIN_ID

add_user(username, creator_id, w) ==
    IF username = ""
    THEN Result(cfgFile, trkFile, defaultList, FALSE, "EmptyName", 0, FALSE, 0)
    ELSE
    LET ld == _load_data(w.cfg)
        lt == _load_tracking_data(w.trk)
        config_list == ld.data.list
    IN  IF InList(username, config_list)
        THEN Result(ld.file, lt.file, defaultList, FALSE, "AlreadyExists", 0, FALSE, 0)
        ELSE
        LET new_list == Append(config_list, username)
            main_data == [ld.data EXCEPT !.list = new_list]
            \* config_list.append mutates the loaded list object in place
            dflt == IF ld.shared THEN new_list ELSE defaultList
            tracking_data == Upsert(lt.data, username, creator_id, now)
            cfg1 == _save_data(ld.file, main_data, w.cfg)
            \* "and" short-circuits: tracking is written only after config was
            trk1 == IF w.cfg THEN _save_tracking_data(lt.file, tracking_data, w.trk)
                    ELSE lt.file
            saved == Saved(w.cfg, w.trk)
            restarted == saved /\ _restart_zivpn_service(w.rl)
            ok == Succeeded(saved, restarted)
        IN  [Result(cfg1, trk1, dflt, ok, IF ok THEN "Added" ELSE "StorageError",
                    IF saved THEN 1 ELSE 0, ~saved, 0)
                EXCEPT !.rlfail = saved /\ ~restarted]

delete_user(username, admin_id, w) ==
    IF username = ""
    THEN Result(cfgFile, trkFile, defaultList, FALSE, "EmptyName", 0, FALSE, 0)
    ELSE IF IsProtected(username)
    THEN Result(cfgFile, trkFile, defaultList, FALSE, "Protected", 0, FALSE, 0)
    ELSE
    LET ld == _load_data(w.cfg)
        lt == _load_tracking_data(w.trk)
        config_list == ld.data.list
        in_config == InList(username, config_list)
        \* config_list.remove mutates the loaded list object in place
        new_list == IF in_config THEN ListRemove(config_list, username) ELSE config_list
        main_data == [ld.data EXCEPT !.list = new_list]
        dflt == IF ld.shared THEN new_list ELSE defaultList
    IN  IF ~Tracked(username, lt.data)
        THEN IF in_config
             THEN IF MayDropUntracked(admin_id)
                  THEN LET cfg1 == _save_data(ld.file, main_data, w.cfg)
                           restarted == w.cfg /\ _restart_zivpn_service(w.rl)
                           ok == Succeeded(w.cfg, restarted)
                       IN  [Result(cfg1, lt.file, dflt, ok,
                                   IF ok THEN "DeletedFromConfig" ELSE "StorageError",
                                   IF w.cfg THEN 1 ELSE 0, ~w.cfg, 0)
                               EXCEPT !.rlfail = w.cfg /\ ~restarted]
                  ELSE Result(ld.file, lt.file, defaultList, FALSE, "NotManaged", 0, FALSE, 0)
             ELSE Result(ld.file, lt.file, defaultList, FALSE, "NotFound", 0, FALSE, 0)
        ELSE
        LET track_entry_index == TrackIndex(username, lt.data)
            original_creator_id == lt.data[track_entry_index].creator_id
        IN  IF ~MayManage(original_creator_id, admin_id)
            THEN Result(ld.file, lt.file, defaultList, FALSE, "PermissionDenied",
                        0, FALSE, original_creator_id)
            ELSE
            LET tracking_data == RemoveAt(lt.data, track_entry_index)
                cfg1 == _save_data(ld.file, main_data, w.cfg)
                trk1 == IF w.cfg THEN _save_tracking_data(lt.file, tracking_data, w.trk)
                        ELSE lt.file
                saved == Saved(w.cfg, w.trk)
                restarted == saved /\ _restart_zivpn_service(w.rl)
                ok == Succeeded(saved, restarted)
            IN  [Result(cfg1, trk1, dflt, ok, IF ok THEN "Deleted" ELSE "StorageError",
                        IF saved THEN 1 ELSE 0, ~saved, 0)
                    EXCEPT !.rlfail = saved /\ ~restarted]

\* Mutant of RenewEntry: 30 days are added to an expiration_date still ahead.
RenewEntry_banked(track_entry, t) ==
    [track_entry EXCEPT !.expiration_date =
        IF WellFormed(@) /\ strptime(@) > t
        THEN strftime(strptime(@) + Days(ValidDays))
        ELSE strftime(t + Days(ValidDays))]

\* Mutant of RenewEntry: creation_date is reset as well.
RenewEntry_recreated(track_entry, t) ==
    [track_entry EXCEPT !.creation_date = strftime(t),
                        !.expiration_date = strftime(t + Days(ValidDays))]

\* renew_user's update of the entry: the window always starts at now.
RenewEntry(track_entry, t) ==
    [track_entry EXCEPT !.expiration_date = strftime(t + Days(ValidDays))]

renew_user(username, admin_id, w) ==
    IF username = ""
    THEN Result(cfgFile, trkFile, defaultList, FALSE, "EmptyName", 0, FALSE, 0)
    ELSE
    LET lt == _load_tracking_data(w.trk)
    IN  IF ~Tracked(username, lt.data)
        THEN Result(cfgFile, lt.file, defaultList, FALSE, "NotFound", 0, FALSE, 0)
        ELSE
        LET i == TrackIndex(username, lt.data)
            original_creator_id == lt.data[i].creator_id
        IN  IF ~MayManage(original_creator_id, admin_id)
            THEN Result(cfgFile, lt.file, defaultList, FALSE, "PermissionDenied",
                        0, FALSE, original_creator_id)
            ELSE
            LET tracking_data == [lt.data EXCEPT ![i] = RenewEntry(@, now)]
                trk1 == _save_tracking_data(lt.file, tracking_data, w.trk)
            IN  Result(cfgFile, trk1, defaultList, w.trk,
                       IF w.trk THEN "Renewed" ELSE "StorageError", 0, ~w.trk, 0)

\* list.sort(key=lambda x: x["username"].lower()): a stable sort.
RECURSIVE SortByName(_)
InsertByName(e, s) ==
    LET k == CHOOSE k \in 0..Len(s) :
                 /\ \A j \in 1..k : NameRank(s[j].username) <= NameRank(e.username)
                 /\ k < Len(s) => NameRank(s[k+1].username) > NameRank(e.username)
    IN  SubSeq(s, 1, k) \o <<e>> \o SubSeq(s, k+1, Len(s))
SortByName(s) ==
    IF s = <<>> THEN <<>>
    ELSE InsertByName(s[Len(s)], SortByName(SubSeq(s, 1, Len(s) - 1)))

\* Mutant of Visible: the super-admin is filtered like everyone else.
Visible_own(entry, admin_id) == entry.creator_id = admin_id

\* The records get_all_users keeps for admin_id.
Visible(entry, admin_id) == admin_id = ADMIN_ID \/ entry.creator_id = admin_id

get_all_users(admin_id, w) ==
    LET lt == _load_tracking_data(w.trk)
        filtered_users == SelectSeq(lt.data, LAMBDA e : Visible(e, admin_id))
    IN  [Result(cfgFile, lt.file, defaultList, TRUE, "Listed", 0, FALSE, 0)
            EXCEPT !.ret = SortByName(filtered_users)]

----------------------------------------------------------------------------
(* Expiration sweeper *)

\* Mutant of IsExpired: root is swept like any other identifier.
IsExpired_root(entry, t) ==
    /\ entry.username # ""
    /\ WellFormed(entry.expiration_date)
    /\ strptime(entry.expiration_date) < t

\* The loop's test of one record: skipped without a username or a date string,
\* or with a date string strptime rejects; never "root".
IsExpired(entry, t) ==
    /\ entry.username # ""
    /\ WellFormed(entry.expiration_date)
    /\ strptime(entry.expiration_date) < t
    /\ ~IsProtected(entry.username)

\* Mutant of ExpiredUsernames: the loop stops at the first expired record.
ExpiredUsernames_first(tracking, t) ==
    LET expired == SelectSeq(tracking, LAMBDA e : IsExpired(e, t))
    IN  IF expired = <<>> THEN <<>> ELSE <<expired[1].username>>

\* expired_usernames, in the order of the tracking list
ExpiredUsernames(tracking, t) ==
    LET expired == SelectSeq(tracking, LAMBDA e : IsExpired(e, t))
    IN  [i \in 1..Len(expired) |-> expired[i].username]

check_and_expire_users(w) ==
    LET lt == _load_tracking_data(w.trk)
        ld == _load_data(w.cfg)
        config_list == ld.data.list
        expired_usernames == ExpiredUsernames(lt.data, now)
    IN  IF expired_usernames = <<>>
        THEN Result(ld.file, lt.file, defaultList, FALSE, "NothingExpired", 0, FALSE, 0)
        ELSE
        LET new_tracking_data ==
                SelectSeq(lt.data, LAMBDA e : ~InList(e.username, expired_usernames))
            new_config_list ==
                SelectSeq(config_list, LAMBDA u : ~InList(u, expired_usernames))
            config_changed == Len(new_config_list) # Len(config_list)
            users_changed == Len(new_tracking_data) # Len(lt.data) \/ config_changed
            main_data == IF config_changed THEN [ld.data EXCEPT !.list = new_config_list]
                         ELSE ld.data
            \* main_data["auth"] is DEFAULT_CONFIG["auth"] after a fallback load
            dflt == IF ld.shared /\ config_changed THEN new_config_list ELSE defaultList
        IN  IF users_changed
            THEN LET cfg1 == _save_data(ld.file, main_data, w.cfg)
                     \* both saves are attempted, whatever the first returned
                     trk1 == _save_tracking_data(lt.file, new_tracking_data, w.trk)
                     saved == Saved(w.cfg, w.trk)
                     restarted == saved /\ _restart_zivpn_service(w.rl)
                     ok == Succeeded(saved, restarted)
                 IN  [Result(cfg1, trk1, dflt, ok, IF ok THEN "Expired" ELSE "StorageError",
                             IF saved THEN 1 ELSE 0, ~saved, 0)
                         EXCEPT !.rlfail = saved /\ ~restarted]
            ELSE Result(ld.file, lt.file, dflt, FALSE, "NoEffectiveChange", 0, FALSE, 0)

----------------------------------------------------------------------------
(* Access allowlist *)

AllowResult(mgr, ok, outcome, wfail) ==
    [cfg |-> cfgFile, trk |-> trkFile, mgr |-> mgr, dflt |-> defaultList, ok |-> ok,
     outcome |-> outcome, reloads |-> 0, wfail |-> wfail, named |-> 0,
     rlfail |-> FALSE, dir |-> backupDir, bak |-> NoBackup, ret |-> <<>>]

\* Mutant of IsListed: the membership test never finds the identity.
IsListed_never(user_id, managers) == FALSE

\* "user_id in managers"
IsListed(user_id, managers) == InList(user_id, managers)

\* Mutant of IsMainAdmin: the super-admin is not recognised.
IsMainAdmin_never(user_id) == FALSE

\* "user_id == original_admin_id", ADMIN_TELEGRAM_ID read from the environment
IsMainAdmin(user_id) == user_id = ADMIN_ID

add_bot_manager(user_id, w) ==
    LET lm == _load_bot_managers(w.mgr)
    IN  IF IsMainAdmin(user_id)
        THEN AllowResult(lm.file, FALSE, "AlreadyPrivileged", FALSE)
        ELSE IF IsListed(user_id, lm.data)
        THEN AllowResult(lm.file, FALSE, "AlreadyGranted", FALSE)
        ELSE LET managers == Append(lm.data, user_id)
             IN  AllowResult(_save_bot_managers(lm.file, managers, w.mgr), w.mgr,
                             IF w.mgr THEN "Granted" ELSE "StorageError", ~w.mgr)

remove_bot_manager(user_id, w) ==
    LET lm == _load_bot_managers(w.mgr)
    IN  IF ~IsListed(user_id, lm.data)
        THEN AllowResult(lm.file, FALSE, "NotGranted", FALSE)
        ELSE LET managers == ListRemove(lm.data, user_id)
             IN  AllowResult(_save_bot_managers(lm.file, managers, w.mgr), w.mgr,
                             IF w.mgr THEN "Revoked" ELSE "StorageError", ~w.mgr)

is_bot_manager(user_id, w) == IsListed(user_id, _load_bot_managers(w.mgr).data)

----------------------------------------------------------------------------
(* Backup *)

\* A str is the sequence of its pieces; paths are split at their separators.
CONFIG_FILE == <<"/", "etc", "/", "zivpn", "/", "config.json">>
TRACKING_FILE == <<"/", "etc", "/", "zivpn", "/", "manager_tracking.json">>
BOT_MANAGERS_FILE == <<"/", "etc", "/", "zivpn", "/", "bot_managers.json">>
BACKUP_DIR == <<"backups">>

\* Python's None, as create_backup returns it.
None == <<>>

\* "sub in str" on two strs
Contains(sub, str) ==
    \E i \in 1..(Len(str) - Len(sub) + 1) : SubSeq(str, i, i + Len(sub) - 1) = sub

os_path_join(a, b) == a \o <<"/">> \o b

\* f"{base_name}_{timestamp}.bak" under BACKUP_DIR
BackupPath(base_name, timestamp) ==
    os_path_join(BACKUP_DIR, <<base_name, "_", timestamp, ".bak">>)

\* Which of the three copies succeed.
Copies == [cfg : BOOLEAN, trk : BOOLEAN, mgr : BOOLEAN]

\* create_backup: c tells which shutil.copy2 calls succeed.
create_backup(c) ==
    LET timestamp == ToString(strftime(now))
        files_to_backup ==
            << [file_path |-> CONFIG_FILE, base_name |-> "config.json",
                exists |-> cfgFile.kind # "absent", copy |-> c.cfg],
               [file_path |-> TRACKING_FILE, base_name |-> "manager_tracking.json",
                exists |-> trkFile.kind # "absent", copy |-> c.trk],
               [file_path |-> BOT_MANAGERS_FILE, base_name |-> "bot_managers.json",
                exists |-> mgrFile.kind # "absent", copy |-> c.mgr] >>
        copied == SelectSeq(files_to_backup, LAMBDA f : f.exists /\ f.copy)
        backup_paths ==
            [i \in 1..Len(copied) |-> BackupPath(copied[i].base_name, timestamp)]
        success == Len(copied) = Len(files_to_backup)
        found == SelectSeq(backup_paths, LAMBDA p : Contains(CONFIG_FILE, p))
        config_backup_path == IF found = <<>> THEN None ELSE found[1]
        ret == IF success /\ config_backup_path # None THEN config_backup_path ELSE None
    IN  [Result(cfgFile, trkFile, defaultList, ret # None,
                IF ret # None THEN "BackedUp" ELSE "BackupFailed", 0, FALSE, 0)
            EXCEPT !.ret = ret,
                   !.dir = backupDir \cup Range(backup_paths),
                   !.bak = [tried |-> {files_to_backup[i].base_name :
                                          i \in 1..Len(files_to_backup)},
                            copied |-> {copied[i].base_name : i \in 1..Len(copied)}]]

----------------------------------------------------------------------------
(* Command handlers (bot.py): the checks made before user_manager is called.
   args is context.args; an argument of /grant and /revoke is a token that
   int() accepts (num) or rejects *)

\* Mutant of is_admin: every actor passes for the super-admin.
is_admin_any(user_id) == TRUE

is_admin(user_id) == user_id = ADMIN_ID

\* Mutant of is_authorized: every actor is let through.
is_authorized_open(user_id, w) == TRUE

is_authorized(user_id, w) == user_id = ADMIN_ID \/ is_bot_manager(user_id, w)

\* The allowlist document once is_authorized has returned: "or" short-circuits
\* for the super-admin, anyone else has the allowlist loaded.
Gated(user_id, w) ==
    IF user_id = ADMIN_ID THEN mgrFile ELSE _load_bot_managers(w.mgr).file

\* A handler that replies and returns before it calls user_manager.
Rejected(mgr, outcome) ==
    [Result(cfgFile, trkFile, defaultList, FALSE, outcome, 0, FALSE, 0)
        EXCEPT !.mgr = mgr]

add_user_command(user_id, args, w) ==
    IF ~is_authorized(user_id, w) THEN Rejected(Gated(user_id, w), "Unauthorized")
    ELSE IF Len(args) # 1 THEN Rejected(Gated(user_id, w), "Usage")
    ELSE [add_user(args[1], user_id, w) EXCEPT !.mgr = Gated(user_id, w)]

delete_user_command(user_id, args, w) ==
    IF ~is_authorized(user_id, w) THEN Rejected(Gated(user_id, w), "Unauthorized")
    ELSE IF Len(args) # 1 THEN Rejected(Gated(user_id, w), "Usage")
    ELSE [delete_user(args[1], user_id, w) EXCEPT !.mgr = Gated(user_id, w)]

renew_user_command(user_id, args, w) ==
    IF ~is_authorized(user_id, w) THEN Rejected(Gated(user_id, w), "Unauthorized")
    ELSE IF Len(args) # 1 THEN Rejected(Gated(user_id, w), "Usage")
    ELSE [renew_user(args[1], user_id, w) EXCEPT !.mgr = Gated(user_id, w)]

list_users_command(user_id, w) ==
    IF ~is_authorized(user_id, w) THEN Rejected(Gated(user_id, w), "Unauthorized")
    ELSE [get_all_users(user_id, w) EXCEPT !.mgr = Gated(user_id, w)]

grant_access_command(user_id, args, w) ==
    IF ~is_admin(user_id) THEN Rejected(mgrFile, "AdminOnly")
    ELSE IF Len(args) # 1 THEN Rejected(mgrFile, "Usage")
    ELSE IF ~args[1].num THEN Rejected(mgrFile, "NotANumber")
    ELSE add_bot_manager(args[1].val, w)

revoke_access_command(user_id, args, w) ==
    IF ~is_admin(user_id) THEN Rejected(mgrFile, "AdminOnly")
    ELSE IF Len(args) # 1 THEN Rejected(mgrFile, "Usage")
    ELSE IF ~args[1].num THEN Rejected(mgrFile, "NotANumber")
    ELSE remove_bot_manager(args[1].val, w)

backup_command(user_id, c) ==
    IF ~is_admin(user_id) THEN Rejected(mgrFile, "AdminOnly")
    ELSE create_backup(c)

----------------------------------------------------------------------------
(* The documents as the code reads them *)

ConfigListOf(file, dflt) == IF file.kind = "valid" THEN file.list ELSE dflt
LedgerOf(file) ==
    IF file.kind = "valid" THEN SelectSeq(file.list, LAMBDA e : e.complete) ELSE <<>>
AllowlistOf(file) ==
    IF file.kind = "valid" THEN SelectSeq(file.list, LAMBDA x : x # NotAnInt) ELSE <<>>

ConfigList == ConfigListOf(cfgFile, defaultList)
Ledger == LedgerOf(trkFile)
Allowlist == AllowlistOf(mgrFile)

\* The tracking ledger and the config active list name the same identifiers.
Agreed == {Ledger[i].username : i \in 1..Len(Ledger)} = Range(ConfigList)

----------------------------------------------------------------------------
(* History of calls *)

\* No call is waiting for its reply.
NoCall ==
    [op |-> "none", user |-> "", target |-> 0, actor |-> 0, ok |-> FALSE,
     outcome |-> "", reloads |-> 0, wfail |-> FALSE, named |-> 0,
     rlfail |-> FALSE, agreed |-> FALSE, bak |-> NoBackup, ret |-> <<>>]

NoSummary == [op |-> "none", target |-> 0, ok |-> FALSE, wfail |-> FALSE]

\* The record of a call with result r, made in the current state.
Call(op, user, target, actor, r) ==
    [op |-> op, user |-> user, target |-> target, actor |-> actor, ok |-> r.ok,
     outcome |-> r.outcome, reloads |-> r.reloads, wfail |-> r.wfail,
     named |-> r.named, rlfail |-> r.rlfail, agreed |-> Agreed, bak |-> r.bak,
     ret |-> r.ret]

\* What is remembered of a call once it has returned: sweeps and allowlist
\* calls, until the next call returns or time passes.
Summary(call) ==
    IF call.op \in {"sweep", "grant", "revoke"}
    THEN [op |-> call.op, target |-> call.target, ok |-> call.ok, wfail |-> call.wfail]
    ELSE NoSummary

Apply(op, user, target, actor, r) ==
    /\ last = NoCall
    /\ cfgFile' = r.cfg
    /\ trkFile' = r.trk
    /\ mgrFile' = r.mgr
    /\ defaultList' = r.dflt
    /\ backupDir' = r.dir
    /\ last' = Call(op, user, target, actor, r)
    /\ UNCHANGED <<now, prev, job, cmd, handlers>>

----------------------------------------------------------------------------
(* Actions: one per function of user_manager.py a command or the scheduler
   calls, with the identifiers U, the actors A and the write outcomes W it is
   called with *)

AddUser(U, A, W) ==
    \E username \in U, creator_id \in A, w \in W :
        Apply("add", username, 0, creator_id, add_user(username, creator_id, w))

DeleteUser(U, A, W) ==
    \E username \in U, admin_id \in A, w \in W :
        Apply("delete", username, 0, admin_id, delete_user(username, admin_id, w))

RenewUser(U, A, W) ==
    \E username \in U, admin_id \in A, w \in W :
        Apply("renew", username, 0, admin_id, renew_user(username, admin_id, w))

GetAllUsers(A, W) ==
    \E admin_id \in A, w \in W :
        Apply("list", "", 0, admin_id, get_all_users(admin_id, w))

CheckAndExpireUsers(W) ==
    \E w \in W :
        Apply("sweep", "", 0, 0, check_and_expire_users(w))

AddBotManager(T, W) ==
    \E user_id \in T, w \in W :
        Apply("grant", "", user_id, ADMIN_ID, add_bot_manager(user_id, w))

RemoveBotManager(T, W) ==
    \E user_id \in T, w \in W :
        Apply("revoke", "", user_id, ADMIN_ID, remove_bot_manager(user_id, w))

\* The argument lists of a command: none, or one token.
NameArgs(U) == {<<>>} \cup {<<u>> : u \in U}
IdArgs(T) ==
    {<<>>, << [num |-> FALSE, val |-> 0] >>} \cup {<< [num |-> TRUE, val |-> t] >> : t \in T}
\* The identifier and the identity a command names, for the record of the call.
NameOf(args) == IF args = <<>> THEN "" ELSE args[1]
IdOf(args) == IF args # <<>> /\ args[1].num THEN args[1].val ELSE 0

AddUserCommand(U, A, W) ==
    \E args \in NameArgs(U), user_id \in A, w \in W :
        Apply("add", NameOf(args), 0, user_id, add_user_command(user_id, args, w))

DeleteUserCommand(U, A, W) ==
    \E args \in NameArgs(U), user_id \in A, w \in W :
        Apply("delete", NameOf(args), 0, user_id, delete_user_command(user_id, args, w))

RenewUserCommand(U, A, W) ==
    \E args \in NameArgs(U), user_id \in A, w \in W :
        Apply("renew", NameOf(args), 0, user_id, renew_user_command(user_id, args, w))

ListUsersCommand(A, W) ==
    \E user_id \in A, w \in W :
        Apply("list", "", 0, user_id, list_users_command(user_id, w))

GrantAccessCommand(T, A, W) ==
    \E args \in IdArgs(T), user_id \in A, w \in W :
        Apply("grant", "", IdOf(args), user_id, grant_access_command(user_id, args, w))

RevokeAccessCommand(T, A, W) ==
    \E args \in IdArgs(T), user_id \in A, w \in W :
        Apply("revoke", "", IdOf(args), user_id, revoke_access_command(user_id, args, w))

BackupCommand(A, C) ==
    \E user_id \in A, c \in C :
        Apply("backup", "", 0, user_id, backup_command(user_id, c))

CreateBackup(C) ==
    \E c \in C :
        Apply("backup", "", 0, ADMIN_ID, create_backup(c))

\* Someone with a shell on the host removes a document.
Unlink ==
    /\ last = NoCall
    /\ \/ cfgFile.kind # "absent" /\ cfgFile' = NoConfig("absent")
             /\ UNCHANGED <<trkFile, mgrFile>>
       \/ trkFile.kind # "absent" /\ trkFile' = NoList("absent")
             /\ UNCHANGED <<cfgFile, mgrFile>>
       \/ mgrFile.kind # "absent" /\ mgrFile' = NoList("absent")
             /\ UNCHANGED <<cfgFile, trkFile>>
    /\ UNCHANGED <<defaultList, backupDir, now, last, prev, job, cmd, handlers>>

\* The call returns: the command handler replies (bot.py), the scheduler
\* drops the sweep's result.
Reply ==
    /\ last # NoCall
    /\ last' = NoCall
    /\ prev' = Summary(last)
    /\ UNCHANGED <<cfgFile, trkFile, mgrFile, defaultList, backupDir, now, job, cmd, handlers>>

\* Time passes between calls.
Tick ==
    /\ last = NoCall
    /\ now + TickStep <= MaxNow
    /\ now' = now + TickStep
    /\ prev' = NoSummary
    /\ UNCHANGED <<cfgFile, trkFile, mgrFile, defaultList, backupDir, last, job, cmd, handlers>>

----------------------------------------------------------------------------
(* The sweep and a ledger call as two threads.  The scheduler runs
   check_and_expire_users, a plain function, in the event loop's executor
   thread, while a handler runs add_user or renew_user on the loop; nothing
   locks the documents, so the two interleave between any two file
   operations.  Every write succeeds here. *)

\* A thread that is running nothing.
Idle ==
    [pc |-> "idle", op |-> "", username |-> "", actor |-> 0,
     main_data |-> [other |-> "", list |-> <<>>], tracking_data |-> <<>>, ok |-> FALSE]

Done(thread, ok) == [thread EXCEPT !.pc = "done", !.ok = ok]

\* check_and_expire_users: tracking_data = _load_tracking_data()
SweepLoadTracking ==
    /\ job.pc = "idle"
    /\ job' = [Idle EXCEPT !.pc = "loadedTracking", !.op = "sweep",
                            !.tracking_data = _load_tracking_data(TRUE).data]
    /\ UNCHANGED <<cfgFile, trkFile, mgrFile, defaultList, backupDir, now, last, prev, cmd, handlers>>

\* main_data = _load_data(), then the loop that collects expired_usernames
SweepLoadConfig ==
    /\ job.pc = "loadedTracking"
    /\ LET loaded == [job EXCEPT !.main_data = _load_data(TRUE).data]
       IN  job' = IF ExpiredUsernames(job.tracking_data, now) = <<>>
                  THEN Done(loaded, FALSE)
                  ELSE [loaded EXCEPT !.pc = "loadedConfig"]
    /\ UNCHANGED <<cfgFile, trkFile, mgrFile, defaultList, backupDir, now, last, prev, cmd, handlers>>

\* the two filters, then save_config_ok = _save_data(main_data)
SweepSaveConfig ==
    /\ job.pc = "loadedConfig"
    /\ LET expired_usernames == ExpiredUsernames(job.tracking_data, now)
           new_tracking_data ==
               SelectSeq(job.tracking_data, LAMBDA e : ~InList(e.username, expired_usernames))
           new_config_list ==
               SelectSeq(job.main_data.list, LAMBDA u : ~InList(u, expired_usernames))
           config_changed == Len(new_config_list) # Len(job.main_data.list)
           users_changed == Len(new_tracking_data) # Len(job.tracking_data) \/ config_changed
           main_data == IF config_changed
                        THEN [job.main_data EXCEPT !.list = new_config_list]
                        ELSE job.main_data
       IN  IF users_changed
           THEN /\ cfgFile' = _save_data(cfgFile, main_data, TRUE)
                /\ job' = [job EXCEPT !.pc = "savedConfig", !.main_data = main_data,
                                      !.tracking_data = new_tracking_data]
           ELSE /\ cfgFile' = cfgFile
                /\ job' = Done(job, FALSE)
    /\ UNCHANGED <<trkFile, mgrFile, defaultList, backupDir, now, last, prev, cmd, handlers>>

\* save_tracking_ok = _save_tracking_data(new_tracking_data), reload, return True
SweepSaveTracking ==
    /\ job.pc = "savedConfig"
    /\ trkFile' = _save_tracking_data(trkFile, job.tracking_data, TRUE)
    /\ job' = Done(job, TRUE)
    /\ UNCHANGED <<cfgFile, mgrFile, defaultList, backupDir, now, last, prev, cmd, handlers>>

\* add_user: main_data = _load_data()
AddLoadConfig(U, A) ==
    /\ cmd.pc = "idle"
    /\ \E username \in U, creator_id \in A :
          cmd' = [Idle EXCEPT !.pc = "loadedConfig", !.op = "add",
                              !.username = username, !.actor = creator_id,
                              !.main_data = _load_data(TRUE).data]
    /\ UNCHANGED <<cfgFile, trkFile, mgrFile, defaultList, backupDir, now, last, prev, job, handlers>>

\* tracking_data = _load_tracking_data(), then the test "username in config_list"
AddLoadTracking ==
    /\ cmd.op = "add" /\ cmd.pc = "loadedConfig"
    /\ cmd' = IF InList(cmd.username, cmd.main_data.list)
              THEN Done(cmd, FALSE)
              ELSE [cmd EXCEPT !.pc = "loadedTracking",
                               !.tracking_data = _load_tracking_data(TRUE).data]
    /\ UNCHANGED <<cfgFile, trkFile, mgrFile, defaultList, backupDir, now, last, prev, job, handlers>>

\* the append, the tracking record, then _save_data(main_data)
AddSaveConfig ==
    /\ cmd.op = "add" /\ cmd.pc = "loadedTracking"
    /\ LET main_data == [cmd.main_data EXCEPT !.list = Append(@, cmd.username)]
           tracking_data == Upsert(cmd.tracking_data, cmd.username, cmd.actor, now)
       IN  /\ cfgFile' = _save_data(cfgFile, main_data, TRUE)
           /\ cmd' = [cmd EXCEPT !.pc = "savedConfig", !.main_data = main_data,
                                 !.tracking_data = tracking_data]
    /\ UNCHANGED <<trkFile, mgrFile, defaultList, backupDir, now, last, prev, job, handlers>>

\* _save_tracking_data(tracking_data), reload, return True
AddSaveTracking ==
    /\ cmd.op = "add" /\ cmd.pc = "savedConfig"
    /\ trkFile' = _save_tracking_data(trkFile, cmd.tracking_data, TRUE)
    /\ cmd' = Done(cmd, TRUE)
    /\ UNCHANGED <<cfgFile, mgrFile, defaultList, backupDir, now, last, prev, job, handlers>>

\* renew_user: tracking_data = _load_tracking_data(), the lookup and the
\* permission check
RenewLoad(U, A) ==
    /\ cmd.pc = "idle"
    /\ \E username \in U, admin_id \in A :
          LET tracking_data == _load_tracking_data(TRUE).data
              called == [Idle EXCEPT !.op = "renew", !.username = username,
                                     !.actor = admin_id, !.tracking_data = tracking_data]
          IN  cmd' = IF /\ Tracked(username, tracking_data)
                        /\ MayManage(tracking_data[TrackIndex(username, tracking_data)].creator_id,
                                     admin_id)
                     THEN [called EXCEPT !.pc = "loadedTracking"]
                     ELSE Done(called, FALSE)
    /\ UNCHANGED <<cfgFile, trkFile, mgrFile, defaultList, backupDir, now, last, prev, job, handlers>>

\* the new expiration_date, then _save_tracking_data(tracking_data), return True
RenewSave ==
    /\ cmd.op = "renew" /\ cmd.pc = "loadedTracking"
    /\ LET i == TrackIndex(cmd.username, cmd.tracking_data)
           tracking_data == [cmd.tracking_data EXCEPT ![i] = RenewEntry(@, now)]
       IN  /\ trkFile' = _save_tracking_data(trkFile, tracking_data, TRUE)
           /\ cmd' = Done([cmd EXCEPT !.tracking_data = tracking_data], TRUE)
    /\ UNCHANGED <<cfgFile, mgrFile, defaultList, backupDir, now, last, prev, job, handlers>>

\* A thread that has returned is ready for its next call.
Return ==
    /\ \/ job.pc = "done" /\ job' = Idle /\ cmd' = cmd
       \/ cmd.pc = "done" /\ cmd' = Idle /\ job' = job
    /\ UNCHANGED <<cfgFile, trkFile, mgrFile, defaultList, backupDir, now, last, prev, handlers>>

\* Time passes while no call is running.
Quiet == job.pc = "idle" /\ cmd.pc = "idle"

----------------------------------------------------------------------------
(* Two /add commands as coroutines of the one event loop.  A handler is an
   "async def" that calls user_manager.add_user, a plain function, without
   await: the loop can run another handler only where this one awaits, which
   is at its reply.  add_user is split at its file operations as above, and a
   handler steps only while every other one is at a point where it has
   yielded.  Every write succeeds here. *)

\* The updates being handled.
Handlers == {1, 2}

\* Mutant of Yields: a handler can be suspended between any two file operations.
Yields_anywhere(pc) == TRUE

\* The positions at which a handler is not running: not yet started, at
\* "await update.message.reply_text(...)", or returned.
Yields(pc) == pc \in {"idle", "reply", "done"}

\* The event loop can run a step of handler h.
Runs(h) == \A g \in Handlers \ {h} : Yields(handlers[g].pc)

\* add_user_command up to add_user's main_data = _load_data(): the
\* authorization and usage checks reply at once.
AddCommandStart(U, A) ==
    /\ \E h \in Handlers, args \in NameArgs(U), user_id \in A :
          /\ handlers[h].pc = "idle" /\ Runs(h)
          /\ LET called == [Idle EXCEPT !.op = "add", !.username = NameOf(args),
                                        !.actor = user_id]
             IN  handlers' =
                   [handlers EXCEPT ![h] =
                      IF ~is_authorized(user_id, AllOk) \/ Len(args) # 1
                      THEN [called EXCEPT !.pc = "reply"]
                      ELSE [called EXCEPT !.pc = "loadedConfig",
                                          !.main_data = _load_data(TRUE).data]]
          /\ mgrFile' = Gated(user_id, AllOk)
    /\ UNCHANGED <<cfgFile, trkFile, defaultList, backupDir, now, last, prev, job, cmd>>

\* tracking_data = _load_tracking_data(), then the test "username in config_list"
AddCommandLoadTracking ==
    /\ \E h \in Handlers :
          /\ handlers[h].pc = "loadedConfig" /\ Runs(h)
          /\ handlers' =
                [handlers EXCEPT ![h] =
                   IF InList(@.username, @.main_data.list)
                   THEN [@ EXCEPT !.pc = "reply"]
                   ELSE [@ EXCEPT !.pc = "loadedTracking",
                                  !.tracking_data = _load_tracking_data(TRUE).data]]
    /\ UNCHANGED <<cfgFile, trkFile, mgrFile, defaultList, backupDir, now, last, prev,
                   job, cmd>>

\* the append, the tracking record, then _save_data(main_data)
AddCommandSaveConfig ==
    /\ \E h \in Handlers :
          /\ handlers[h].pc = "loadedTracking" /\ Runs(h)
          /\ LET c == handlers[h]
                 main_data == [c.main_data EXCEPT !.list = Append(@, c.username)]
                 tracking_data == Upsert(c.tracking_data, c.username, c.actor, now)
             IN  /\ cfgFile' = _save_data(cfgFile, main_data, TRUE)
                 /\ handlers' = [handlers EXCEPT ![h] =
                                    [c EXCEPT !.pc = "savedConfig", !.main_data = main_data,
                                              !.tracking_data = tracking_data]]
    /\ UNCHANGED <<trkFile, mgrFile, defaultList, backupDir, now, last, prev, job, cmd>>

\* _save_tracking_data(tracking_data), reload, return True: success is replied
AddCommandSaveTracking ==
    /\ \E h \in Handlers :
          /\ handlers[h].pc = "savedConfig" /\ Runs(h)
          /\ trkFile' = _save_tracking_data(trkFile, handlers[h].tracking_data, TRUE)
          /\ handlers' = [handlers EXCEPT ![h] = [@ EXCEPT !.pc = "reply", !.ok = TRUE]]
    /\ UNCHANGED <<cfgFile, mgrFile, defaultList, backupDir, now, last, prev, job, cmd>>

\* await update.message.reply_text(...) completes and the handler returns
AddCommandReply ==
    /\ \E h \in Handlers :
          /\ handlers[h].pc = "reply" /\ Runs(h)
          /\ handlers' = [handlers EXCEPT ![h] = [@ EXCEPT !.pc = "done"]]
    /\ UNCHANGED <<cfgFile, trkFile, mgrFile, defaultList, backupDir, now, last, prev,
                   job, cmd>>

----------------------------------------------------------------------------
(* Initial states: the documents as init_storage() leaves or finds them *)

InitConfigs ==
    { ConfigDoc([other |-> "default", list |-> SeedList]), NoConfig("invalid") }

\* A ledger edited by hand: a seed identifier given a record, an entry without
\* its keys, a date that does not parse, and a record for root.
HandEdited ==
    << Entry("neri", 1002, 0, 0),
       [Entry("alice", 1002, 0, 0) EXCEPT !.complete = FALSE],
       Entry("alice", 1001, 0, Malformed),
       Entry("root", 1001, 0, 0) >>

InitTrackings == { ListDoc(<<>>), ListDoc(HandEdited) }

InitAllowlists ==
    { ListDoc(<<>>), ListDoc(<<1001, NotAnInt>>), NoList("empty"), NoList("invalid") }

Start(configs, trackings, allowlists) ==
    /\ cfgFile \in configs
    /\ trkFile \in trackings
    /\ mgrFile \in allowlists
    /\ defaultList = SeedList
    /\ backupDir = {}
    /\ now = 0
    /\ last = NoCall
    /\ prev = NoSummary
    /\ job = Idle
    /\ cmd = Idle
    /\ handlers = [h \in Handlers |-> Idle]

\* The ledger and the sweeper, every write succeeding.
Init ==
    /\ Start(InitConfigs, InitTrackings, {ListDoc(<<>>)})
    /\ cfgFile.kind = "valid" \/ trkFile.list = <<>>

Next ==
    \/ AddUser(NewUsernames, Creators, NoFaults)
    \/ DeleteUser(Usernames, Actors, NoFaults)
    \/ RenewUser(Usernames, Actors, NoFaults)
    \/ GetAllUsers(Actors, NoFaults)
    \/ CheckAndExpireUsers(NoFaults)
    \/ Reply
    \/ Tick

Spec == Init /\ [][Next]_vars

\* The allowlist, with writes that may fail.
Targets == Actors \cup {555}

InitAllow ==
    Start({ConfigDoc([other |-> "default", list |-> SeedList])}, {ListDoc(<<>>)},
          InitAllowlists)

NextAllow ==
    \/ AddBotManager(Targets, AllowlistWrites)
    \/ RemoveBotManager(Targets, AllowlistWrites)
    \/ Reply

SpecAllow == InitAllow /\ [][NextAllow]_vars

\* The bot: the commands of the super-admin, a manager and a stranger, every
\* write and reload succeeding.
BotActors == {ADMIN_ID, 1001, 555}
BotUsernames == {"alice", "neri"}
Smooth == {w \in NoFaults : w.rl}
AllCopied == {c \in Copies : c.cfg /\ c.trk /\ c.mgr}

InitBot ==
    Start({ConfigDoc([other |-> "default", list |-> SeedList])}, {ListDoc(<<>>)},
          {ListDoc(<<>>), ListDoc(<<1001, NotAnInt>>)})

NextBot ==
    \/ AddUserCommand(BotUsernames, BotActors, Smooth)
    \/ DeleteUserCommand(BotUsernames, BotActors, Smooth)
    \/ RenewUserCommand(BotUsernames, BotActors, Smooth)
    \/ ListUsersCommand(BotActors, Smooth)
    \/ GrantAccessCommand(BotActors, BotActors, Smooth)
    \/ RevokeAccessCommand(BotActors, BotActors, Smooth)
    \/ BackupCommand(BotActors, AllCopied)
    \/ Reply

SpecBot == InitBot /\ [][NextBot]_vars

\* The scheduler's sweep and a handler's add or renew, interleaved.
RaceUsernames == {"alice", "neri"}

InitRace ==
    Start({ConfigDoc([other |-> "default", list |-> SeedList])}, InitTrackings,
          {ListDoc(<<>>)})

NextRace ==
    \/ SweepLoadTracking
    \/ SweepLoadConfig
    \/ SweepSaveConfig
    \/ SweepSaveTracking
    \/ AddLoadConfig(RaceUsernames, Creators)
    \/ AddLoadTracking
    \/ AddSaveConfig
    \/ AddSaveTracking
    \/ RenewLoad(RaceUsernames, Actors)
    \/ RenewSave
    \/ Return
    \/ Quiet /\ Tick

SpecRace == InitRace /\ [][NextRace]_vars

\* Backups, of documents that may have been removed and with copies that may fail.
InitBackup == Start(InitConfigs, InitTrackings, {ListDoc(<<>>), ListDoc(<<1001, NotAnInt>>)})

NextBackup ==
    \/ CreateBackup(Copies)
    \/ Unlink
    \/ Reply
    \/ Tick

SpecBackup == InitBackup /\ [][NextBackup]_vars

\* The ledger and the sweeper when a write or the reload may fail, for two
\* identifiers and two actors.  The config document carries the operator's
\* own daemon fields; the unusable one is a JSON object that still has them
\* but lacks auth.config.
FaultUsernames == {"alice", "neri"}
FaultActors == {ADMIN_ID, 1001}
FaultConfigs ==
    { ConfigDoc([other |-> "custom", list |-> SeedList]),
      [kind |-> "invalid", other |-> "custom", list |-> <<>>] }
FaultTrackings == { ListDoc(<<>>), ListDoc(<< Entry("neri", 1001, 0, 0) >>) }

InitFaults == Start(FaultConfigs, FaultTrackings, {ListDoc(<<>>)})

NextFaults ==
    \/ AddUser(FaultUsernames, FaultActors, LedgerWrites)
    \/ DeleteUser(FaultUsernames, FaultActors, LedgerWrites)
    \/ RenewUser(FaultUsernames, FaultActors, LedgerWrites)
    \/ CheckAndExpireUsers(LedgerWrites)
    \/ Reply
    \/ Tick

SpecFaults == InitFaults /\ [][NextFaults]_vars

\* The scheduled sweep over the days: two accounts created at time 0 by
\* add_user, the sweep, deletes and listings in between, any write of which
\* may fail.  The scheduler fires the job every day for as long as the bot
\* runs, a handler always returns, and the clock advances (between calls, in
\* this model, hence strong fairness); a sweep all of whose writes succeed
\* happens again and again.
LiveUsernames == {"neri", "alice"}
LiveConfigs == { ConfigDoc([other |-> "default", list |-> <<"root", "neri", "alice">>]) }
LiveTrackings ==
    { ListDoc(<< NewEntry("neri", 1001, 0) >>),
      ListDoc(<< NewEntry("neri", 1001, 0), NewEntry("alice", ADMIN_ID, 0) >>) }

InitLive == Start(LiveConfigs, LiveTrackings, {ListDoc(<<>>)})

NextLive ==
    \/ CheckAndExpireUsers(LedgerWrites)
    \/ DeleteUser(LiveUsernames, FaultActors, LedgerWrites)
    \/ GetAllUsers(FaultActors, NoFaults)
    \/ Reply
    \/ Tick

SpecLive ==
    /\ InitLive /\ [][NextLive]_vars
    /\ SF_vars(Tick)
    /\ WF_vars(Reply)
    /\ SF_vars(CheckAndExpireUsers({AllOk}))

\* Two /add commands sent at about the same time by the super-admin, a bot
\* manager or a stranger.
HandlerUsernames == {"alice", "Root", "neri"}
InitHandlers ==
    Start({ConfigDoc([other |-> "default", list |-> SeedList])}, InitTrackings,
          {ListDoc(<<1001, NotAnInt>>)})

NextHandlers ==
    \/ AddCommandStart(HandlerUsernames, BotActors)
    \/ AddCommandLoadTracking
    \/ AddCommandSaveConfig
    \/ AddCommandSaveTracking
    \/ AddCommandReply

SpecHandlers == InitHandlers /\ [][NextHandlers]_vars

----------------------------------------------------------------------------
(* Views used by the properties *)

CreatorOf(u, tracking) == tracking[TrackIndex(u, tracking)].creator_id
RecordOf(u, tracking) == tracking[TrackIndex(u, tracking)]

\* A step in which a function is called: last' is its record, the unprimed
\* variables are the state it was called in.
CallStep == last = NoCall /\ last' # NoCall
CallOf(op) == CallStep /\ last'.op = op

DocsUnchanged == cfgFile' = cfgFile /\ trkFile' = trkFile /\ mgrFile' = mgrFile

\* What delete_user would return if it were called next, by the actor and for
\* the identifier of the call that has just returned.
DeleteNext == delete_user(last.user, last.actor, AllOk)

----------------------------------------------------------------------------
(* C1..C10 *)

\* C1: for every identifier other than "root" and every actor, whenever
\* add_user succeeds, an immediately following delete_user of the same
\* identifier by the same actor succeeds and leaves the config active list and
\* the tracking ledger as they were before the add.
C1_RoundTrip ==
    [][ (CallOf("add") /\ last'.ok /\ last'.user # "root")
        => /\ DeleteNext'.ok
           /\ ConfigListOf(DeleteNext'.cfg, DeleteNext'.dflt) = ConfigList
           /\ LedgerOf(DeleteNext'.trk) = Ledger ]_vars

\* C2: delete_user("root", actor) fails with Protected for every actor, changes
\* no document and triggers no reload.
C2_RootProtected ==
    [][ (CallOf("delete") /\ last'.user = "root")
        => /\ ~last'.ok
           /\ last'.outcome = "Protected"
           /\ last'.reloads = 0
           /\ DocsUnchanged ]_vars

\* C2 witness: a creator recorded for root has asked to delete root.
C2_Witness ==
    /\ last.op = "delete" /\ last.user = "root"
    /\ Tracked("root", Ledger) /\ CreatorOf("root", Ledger) = last.actor

\* C3: for every tracked identifier (other than root itself, which C2 covers)
\* and every actor that is neither its recorded creator nor the super-admin,
\* delete_user fails with PermissionDenied, names the recorded creator and
\* changes neither document.
C3_PermissionDenied ==
    [][ ( /\ CallOf("delete")
          /\ last'.user # "root"
          /\ Tracked(last'.user, Ledger)
          /\ last'.actor # CreatorOf(last'.user, Ledger)
          /\ last'.actor # ADMIN_ID )
        => /\ ~last'.ok
           /\ last'.outcome = "PermissionDenied"
           /\ last'.named = CreatorOf(last'.user, Ledger)
           /\ DocsUnchanged ]_vars

\* C4: whenever a delete or a renew of a tracked account returns success, the
\* actor was the creator recorded for the account when it called, or the
\* super-admin.
C4_Ownership ==
    [][ ( /\ CallStep
          /\ last'.op \in {"delete", "renew"}
          /\ last'.ok
          /\ Tracked(last'.user, Ledger) )
        => \/ last'.actor = CreatorOf(last'.user, Ledger)
           \/ last'.actor = ADMIN_ID ]_vars

\* C4 witness: a creator who is not the super-admin has deleted its account.
C4_Witness ==
    /\ last.op = "delete" /\ last.ok /\ last.outcome = "Deleted"
    /\ last.actor # ADMIN_ID

\* C5: a permitted renew_user sets the expiration_date to now + 30 days at the
\* time of the call (in the stored precision of one second), whatever it was
\* before, and leaves creation_date and creator_id as they were.
C5_NoBanking ==
    [][ ( /\ CallOf("renew")
          /\ Tracked(last'.user, Ledger)
          /\ MayManage(CreatorOf(last'.user, Ledger), last'.actor) )
        => /\ last'.ok
           /\ Tracked(last'.user, Ledger')
           /\ LET before == RecordOf(last'.user, Ledger)
                  after == RecordOf(last'.user, Ledger')
              IN  /\ after.expiration_date
                        = (now + ValidDays * 86400 * TicksPerSecond) \div TicksPerSecond
                  /\ after.creation_date = before.creation_date
                  /\ after.creator_id = before.creator_id ]_vars

\* C5 witness: an account was renewed while its 30 days had not run out.
C5_Witness ==
    /\ last.op = "renew" /\ last.ok
    /\ Tracked(last.user, Ledger)
    /\ WellFormed(RecordOf(last.user, Ledger).creation_date)
    /\ strptime(RecordOf(last.user, Ledger).creation_date) + Days(ValidDays) > now

\* C6: a sweep that follows a sweep whose writes succeeded, with no call and no
\* time between them, changes no document, triggers no reload and returns false.
C6_SweepIdempotent ==
    [][ (CallOf("sweep") /\ prev.op = "sweep" /\ ~prev.wfail)
        => /\ ~last'.ok
           /\ last'.reloads = 0
           /\ DocsUnchanged ]_vars

\* C6 witness: the second of two sweeps has run, the first having removed accounts.
C6_Witness == last.op = "sweep" /\ prev.op = "sweep" /\ prev.ok

\* C7: get_all_users returns every tracking record to the super-admin and
\* exactly the records whose creator_id is the actor to anyone else, and
\* changes no document; the super-admin's list holds every record of any
\* other actor's list.
C7_ListingScope ==
    [][ CallOf("list")
        => /\ DocsUnchanged
           /\ \A i \in 1..Len(Ledger) :
                 InList(Ledger[i], last'.ret)
                    <=> (last'.actor = ADMIN_ID \/ Ledger[i].creator_id = last'.actor)
           /\ Range(last'.ret) \subseteq Range(Ledger)
           /\ Len(last'.ret) =
                 Cardinality({i \in 1..Len(Ledger) :
                     last'.actor = ADMIN_ID \/ Ledger[i].creator_id = last'.actor})
           /\ Range(last'.ret)
                 \subseteq Range(get_all_users(ADMIN_ID, AllOk).ret) ]_vars

\* C7 witness: a manager has listed its own records while another creator's
\* record exists.
C7_Witness ==
    /\ last.op = "list" /\ last.actor # ADMIN_ID /\ last.ret # <<>>
    /\ \E i \in 1..Len(Ledger) : Ledger[i].creator_id # last.actor

\* C8: for every tracked identifier other than root, whoever created it,
\* delete_user by the super-admin succeeds, and afterwards the identifier is in
\* neither the config active list nor the tracking ledger.
C8_AdminOverride ==
    [][ ( /\ CallOf("delete")
          /\ last'.actor = ADMIN_ID
          /\ last'.user # "root"
          /\ Tracked(last'.user, Ledger) )
        => /\ last'.ok
           /\ ~InList(last'.user, ConfigList')
           /\ ~Tracked(last'.user, Ledger') ]_vars

\* C9: add_bot_manager of an identity in the allowlist fails with
\* AlreadyGranted, remove_bot_manager of an identity not in it fails with
\* NotGranted, both leaving the allowlist as it was; a grant after a successful
\* grant, and a revoke after a successful revoke, of the same identity fails.
C9_GrantRevoke ==
    [][ /\ (CallOf("grant") /\ InList(last'.target, Allowlist))
           => /\ ~last'.ok /\ last'.outcome = "AlreadyGranted"
              /\ mgrFile' = mgrFile
        /\ (CallOf("revoke") /\ ~InList(last'.target, Allowlist))
           => /\ ~last'.ok /\ last'.outcome = "NotGranted"
              /\ mgrFile' = mgrFile
        /\ ( /\ CallStep /\ last'.op \in {"grant", "revoke"}
             /\ prev.op = last'.op /\ prev.target = last'.target /\ prev.ok )
           => /\ ~last'.ok
              /\ last'.outcome = IF last'.op = "grant" THEN "AlreadyGranted"
                                 ELSE "NotGranted" ]_vars

\* C9 witness: the second of two grants of one identity has failed.
C9_Witness ==
    /\ last.op = "grant" /\ last.outcome = "AlreadyGranted"
    /\ prev.op = "grant" /\ prev.ok /\ prev.target = last.target

\* The identifiers the claim C10 says a sweep at time t retires.
DueUsernames(tracking, t) ==
    { tracking[i].username : i \in
        { j \in 1..Len(tracking) :
            /\ WellFormed(tracking[j].expiration_date)
            /\ strptime(tracking[j].expiration_date) < t
            /\ tracking[j].username # "root" } }

\* C10: when a tracking record has a well-formed expiration_date earlier than
\* now and an identifier other than root, the sweep removes exactly those
\* identifiers from the ledger and from the config active list, keeps every
\* other record and identifier, invokes reload once and returns true.
C10_SweepEffect ==
    [][ (CallOf("sweep") /\ DueUsernames(Ledger, now) # {})
        => /\ last'.ok
           /\ last'.reloads = 1
           /\ Ledger' = SelectSeq(Ledger,
                           LAMBDA e : e.username \notin DueUsernames(Ledger, now))
           /\ ConfigList' = SelectSeq(ConfigList,
                               LAMBDA u : u \notin DueUsernames(Ledger, now)) ]_vars

----------------------------------------------------------------------------
(* C11..C20 *)

\* The number of records the ledger holds for one identifier.
RecordsOf(u, tracking) == Cardinality({i \in 1..Len(tracking) : tracking[i].username = u})

\* C11: when an identifier is not in the config active list but has a tracking
\* record, add_user succeeds, appends the identifier to the active list, and
\* afterwards the ledger holds exactly one record for it, with the caller as
\* creator_id, creation_date = now and expiration_date = now + 30 days (in the
\* stored precision of one second), every other record being as it was.
C11_StaleOverwrite ==
    [][ ( /\ CallOf("add")
          /\ last'.user # ""
          /\ ~InList(last'.user, ConfigList)
          /\ Tracked(last'.user, Ledger) )
        => /\ last'.ok
           /\ ConfigList' = Append(ConfigList, last'.user)
           /\ RecordsOf(last'.user, Ledger') = 1
           /\ LET after == RecordOf(last'.user, Ledger')
              IN  /\ after.creator_id = last'.actor
                  /\ after.creation_date = now \div TicksPerSecond
                  /\ after.expiration_date
                        = (now + ValidDays * 86400 * TicksPerSecond) \div TicksPerSecond
           /\ Len(Ledger') = Len(Ledger)
           /\ \A i \in 1..Len(Ledger) :
                 Ledger[i].username # last'.user => Ledger'[i] = Ledger[i] ]_vars

\* C11 witness: the super-admin has added "alice" over the record another
\* creator left for it (the record keeps its place before root's).
C11_Witness ==
    /\ last.op = "add" /\ last.ok /\ last.user = "alice" /\ last.actor = ADMIN_ID
    /\ \E i, j \in 1..Len(Ledger) :
          i < j /\ Ledger[i].username = "alice" /\ Ledger[j].username = "root"

\* C12: for an identifier other than root that is in the config active list
\* and has no tracking record, delete_user succeeds exactly for the
\* super-admin, and then removes the identifier from the config list and leaves
\* the ledger alone; for every other actor it fails and changes no document.
\* For an identifier in neither document it fails with NotFound for every actor.
C12_Inconsistent ==
    [][ ( /\ CallOf("delete")
          /\ last'.user \notin {"", "root"}
          /\ ~Tracked(last'.user, Ledger) )
        => IF InList(last'.user, ConfigList)
           THEN /\ last'.ok <=> last'.actor = ADMIN_ID
                /\ last'.ok => /\ ConfigList' = ListRemove(ConfigList, last'.user)
                               /\ trkFile' = trkFile
                /\ ~last'.ok => DocsUnchanged
           ELSE /\ ~last'.ok
                /\ last'.outcome = "NotFound"
                /\ DocsUnchanged ]_vars

\* The result r, computed in the state the call was made in, is the answer the
\* call gave and leaves the two documents the call left.
SameAnswer(r) ==
    /\ r.ok = last'.ok
    /\ r.outcome = last'.outcome
    /\ r.cfg = cfgFile'
    /\ r.trk = trkFile'

\* The write outcomes of a call whose saves succeed, with the reload's answer rl.
Reloading(rl) == [AllOk EXCEPT !.rl = rl]

\* C13: an add, a delete or a sweep returns the same result and leaves the
\* same two documents whether the reload it invokes succeeds or fails.
C13_ReloadIndependent ==
    [][ /\ CallOf("add") =>
             \A rl \in BOOLEAN :
                SameAnswer(add_user(last'.user, last'.actor, Reloading(rl)))
        /\ CallOf("delete") =>
             \A rl \in BOOLEAN :
                SameAnswer(delete_user(last'.user, last'.actor, Reloading(rl)))
        /\ CallOf("sweep") =>
             \A rl \in BOOLEAN :
                SameAnswer(check_and_expire_users(Reloading(rl))) ]_vars

\* C13 witness: a sweep has removed accounts and returned true although the
\* reload failed.
C13_Witness == last.op = "sweep" /\ last.ok /\ last.rlfail

\* C14: when the tracking ledger and the config active list name the same
\* identifiers, they name the same identifiers again after an add, a delete, a
\* renew or a sweep that ran without a failed write.
C14_DualConsistency ==
    [][ ( /\ CallStep
          /\ last'.op \in {"add", "delete", "renew", "sweep"}
          /\ ~last'.wfail
          /\ Agreed )
        => Agreed' ]_vars

\* C14 witness: a sweep has removed accounts from documents that agreed.
C14_Witness == last.op = "sweep" /\ last.ok /\ last.agreed

\* C15: the add, delete, renew and list commands of an actor that is neither
\* the super-admin nor in the persisted allowlist are rejected before
\* user_manager is called and change no document; so they are for an actor
\* whose revoke has just succeeded, whatever accounts it created.
C15_AuthorizationGate ==
    [][ /\ ( /\ CallStep
             /\ last'.op \in {"add", "delete", "renew", "list"}
             /\ last'.actor # ADMIN_ID
             /\ ~InList(last'.actor, Allowlist) )
           => /\ last'.outcome = "Unauthorized"
              /\ ~last'.ok
              /\ last'.reloads = 0
              /\ DocsUnchanged
        /\ ( /\ CallStep
             /\ last'.op \in {"add", "delete", "renew", "list"}
             /\ last'.actor # ADMIN_ID
             /\ prev.op = "revoke" /\ prev.ok /\ prev.target = last'.actor )
           => /\ last'.outcome = "Unauthorized"
              /\ DocsUnchanged ]_vars

\* C15 witness: a manager whose access was revoked has been refused the delete
\* of an account it created.
C15_Witness ==
    /\ last.op = "delete" /\ last.outcome = "Unauthorized"
    /\ prev.op = "revoke" /\ prev.ok /\ prev.target = last.actor
    /\ Tracked(last.user, Ledger) /\ CreatorOf(last.user, Ledger) = last.actor

\* C16: the allowlist document changes only in a grant or revoke command of
\* the super-admin, a file appears in the backup directory only in a backup
\* command of the super-admin, and the grant, revoke and backup commands of
\* anyone else are rejected and change nothing.
C16_AdminOnly ==
    [][ /\ mgrFile' # mgrFile
           => CallStep /\ last'.op \in {"grant", "revoke"} /\ last'.actor = ADMIN_ID
        /\ backupDir' # backupDir
           => CallOf("backup") /\ last'.actor = ADMIN_ID
        /\ ( /\ CallStep
             /\ last'.op \in {"grant", "revoke", "backup"}
             /\ last'.actor # ADMIN_ID )
           => /\ last'.outcome = "AdminOnly"
              /\ ~last'.ok
              /\ DocsUnchanged
              /\ backupDir' = backupDir ]_vars

\* C16 witness: an allowlisted manager has been refused a grant.
C16_Witness ==
    /\ last.op = "grant" /\ last.outcome = "AdminOnly"
    /\ InList(last.actor, Allowlist)

\* C17: the super-admin identity is never in the allowlist, whatever grants
\* and revokes are made, and add_bot_manager of the super-admin identity fails
\* with AlreadyPrivileged and leaves the allowlist document as it was.
C17_AdminNeverListed ==
    /\ [](~InList(ADMIN_ID, Allowlist))
    /\ [][ (CallOf("grant") /\ last'.target = ADMIN_ID)
            => /\ ~last'.ok
               /\ last'.outcome = "AlreadyPrivileged"
               /\ mgrFile' = mgrFile ]_vars

\* C17 witness: a grant of the super-admin identity has been refused while the
\* allowlist holds a manager.
C17_Witness ==
    /\ last.op = "grant" /\ last.target = ADMIN_ID /\ last.outcome = "AlreadyPrivileged"
    /\ Allowlist # <<>>

\* The three base names create_backup goes through.
BackupNames == {"config.json", "manager_tracking.json", "bot_managers.json"}

\* C18: create_backup returns the path of the config document's copy when all
\* three documents exist and all three copies succeed, and None when a document
\* is missing or a copy fails; either way it goes through all three documents
\* and leaves them unchanged.
C18_BackupResult ==
    [][ CallOf("backup")
        => /\ last'.bak.copied = BackupNames
                => /\ last'.ret = BackupPath("config.json", ToString(strftime(now)))
                   /\ last'.ret \in backupDir'
           /\ last'.bak.copied # BackupNames => last'.ret = None
           /\ last'.bak.tried = BackupNames
           /\ DocsUnchanged ]_vars

\* C19: when the scheduler's sweep and an add_user or renew_user interleave
\* between their loads and saves, no successful update is lost: once both have
\* returned, the identifier of an add that returned success is in the config
\* active list and in the ledger, and the account of a renew that returned
\* success is still in the ledger.
C19_NoLostUpdate ==
    (job.pc = "done" /\ cmd.pc = "done" /\ cmd.ok)
    => /\ Tracked(cmd.username, Ledger)
       /\ cmd.op = "add" => InList(cmd.username, ConfigList)

\* C20: once "root" is in the config active list it stays there through every
\* add, delete, renew and sweep, also when the ledger holds a record for root
\* whose expiration_date has passed.
C20_RootPermanent ==
    [][ InList("root", ConfigList) => InList("root", ConfigList') ]_vars

\* C20 witness: a sweep has removed accounts while root's own record had run out.
C20_Witness ==
    /\ last.op = "sweep" /\ last.ok
    /\ InList("root", ConfigList)
    /\ Tracked("root", Ledger)
    /\ strptime(RecordOf("root", Ledger).expiration_date) < now

----------------------------------------------------------------------------
(* C21..C30 *)

\* C21: the sweep retires expired accounts atomically in effect: every
\* identifier that is in the persisted config active list and in the ledger
\* before a sweep is, after it, in both or in neither - also when one of the
\* sweep's two writes fails.
C21_SweepAtomic ==
    [][ (CallOf("sweep") /\ cfgFile.kind = "valid")
        => \A u \in Usernames :
              (InList(u, cfgFile.list) /\ Tracked(u, Ledger))
              => (InList(u, cfgFile'.list) <=> Tracked(u, Ledger')) ]_vars

\* An identifier left the persisted config active list or the persisted
\* ledger in this step.
Removal ==
    \E u \in Usernames :
        \/ /\ cfgFile.kind = "valid" /\ InList(u, cfgFile.list)
           /\ ~InList(u, ConfigList')
        \/ Tracked(u, Ledger) /\ ~Tracked(u, Ledger')

\* C22: check_and_expire_users returns true exactly when that run removed at
\* least one identifier from a persisted document, and false exactly when
\* both persisted documents are as they were before the run.
C22_SweepResult ==
    [][ CallOf("sweep")
        => /\ last'.ok <=> Removal
           /\ ~last'.ok <=> (cfgFile' = cfgFile /\ trkFile' = trkFile) ]_vars

\* add_user or delete_user, by the name of the call.
LedgerCall(op, username, actor, w) ==
    IF op = "add" THEN add_user(username, actor, w) ELSE delete_user(username, actor, w)

\* The step is the call with result r.
StepOf(r) ==
    /\ cfgFile' = r.cfg /\ trkFile' = r.trk /\ defaultList' = r.dflt
    /\ last'.ok = r.ok /\ last'.outcome = r.outcome /\ last'.reloads = r.reloads

\* The identifier of the call is in exactly one of the two documents afterwards.
InOneOnly == InList(last'.user, ConfigList') # Tracked(last'.user, Ledger')

\* What a storage failure in add_user or delete_user leaves, given which
\* identifiers are then said to be in one document only.
StorageFailure(one_only) ==
        (CallStep /\ last'.op \in {"add", "delete"} /\ last'.wfail)
        => \A w \in LedgerWrites :
              StepOf(LedgerCall(last'.op, last'.user, last'.actor, w))
              => /\ ~last'.ok
                 /\ last'.reloads = 0
                 /\ trkFile' = trkFile
                 /\ ~w.cfg => cfgFile' = cfgFile
                 /\ w.cfg => /\ cfgFile' = LedgerCall(last'.op, last'.user,
                                                      last'.actor, AllOk).cfg
                             /\ one_only => InOneOnly

Unfailing ==
    CASE last'.op = "add" -> add_user(last'.user, last'.actor, AllOk)
      [] last'.op = "delete" -> delete_user(last'.user, last'.actor, AllOk)
      [] OTHER -> check_and_expire_users(AllOk)

\* C25: add, delete and the sweep invoke the reload at most once, and only
\* after every document write of the call has succeeded; a call that returns
\* failure, and a sweep that finds nothing expired, does not invoke it.
C25_ReloadOrdering ==
    [][ (CallStep /\ last'.op \in {"add", "delete", "sweep"})
        => /\ last'.reloads \in {0, 1}
           /\ last'.reloads = 1
              => /\ ~last'.wfail
                 /\ cfgFile' = Unfailing.cfg
                 /\ trkFile' = Unfailing.trk
           /\ ~last'.ok => last'.reloads = 0
           /\ (last'.op = "sweep" /\ ExpiredUsernames(Ledger, now) = <<>>)
              => last'.reloads = 0 ]_vars

\* C25 witness: the sweep has written both documents and invoked the reload,
\* which failed.
C25_Witness ==
    /\ last.op = "sweep" /\ last.reloads = 1 /\ last.rlfail
    /\ ~Tracked("neri", Ledger) /\ ~InList("neri", ConfigList)

\* 30 days, in the unit of the date strings.
Window == strftime(Days(ValidDays))

\* C26 as stated: every tracking record the ledger writes, in add_user or in
\* renew_user, has expiration_date = creation_date + 30 days.
C26_ExpirationWindow_stated ==
    [][ (CallStep /\ last'.op \in {"add", "renew"} /\ last'.ok)
        => LET e == RecordOf(last'.user, Ledger')
           IN  e.expiration_date = e.creation_date + Window ]_vars

\* C26, amended: a record add_user writes has creation_date = the time of the
\* add and expiration_date = creation_date + 30 days; a record renew_user
\* writes has expiration_date = the time of the renewal + 30 days and the
\* creation_date it had.
C26_ExpirationWindow ==
    [][ (CallStep /\ last'.op \in {"add", "renew"} /\ last'.ok)
        => LET e == RecordOf(last'.user, Ledger')
           IN  /\ e.expiration_date = strftime(now) + Window
               /\ last'.op = "add" => e.creation_date = strftime(now)
               /\ last'.op = "renew"
                  => e.creation_date = RecordOf(last'.user, Ledger).creation_date ]_vars

\* C26 witness: an account add_user created has been renewed later on, and
\* its window is longer than 30 days.
C26_Witness ==
    /\ last.op = "renew" /\ last.ok /\ last.user = "alice"
    /\ LET e == RecordOf(last.user, Ledger)
       IN  /\ e.creator_id = ADMIN_ID
           /\ e.creation_date = 0
           /\ e.expiration_date > e.creation_date + Window

\* C27: add, delete and the sweep, whenever they rewrite the config document,
\* leave every field other than the active identifier list as it was in the
\* persisted document, whatever state that document was loaded in.
C27_OpaquePassthrough ==
    [][ (CallStep /\ last'.op \in {"add", "delete", "sweep"} /\ cfgFile' # cfgFile)
        => cfgFile'.other = cfgFile.other ]_vars

\* C28: every config load that falls back to the default (the file absent,
\* empty or structurally invalid) yields the default document with the seed
\* identifier list, whatever add, delete or sweep ran before - also calls that
\* changed a default they had loaded, and calls that returned failure.
C28_DefaultWellDefined ==
    [][ (CallStep /\ last'.op \in {"add", "delete", "sweep"} /\ cfgFile.kind # "valid")
        => _load_data(TRUE).data = [other |-> "default", list |-> SeedList] ]_vars

\* C29: only the literal "root" is reserved: the account "Root" is an ordinary
\* one - delete_user by its creator or by the super-admin succeeds and removes
\* it from both documents, and the sweep removes it from both documents once
\* its expiration_date has passed.
C29_OnlyRootReserved ==
    [][ /\ (CallOf("delete") /\ last'.user = "Root" /\ Tracked("Root", Ledger)
               /\ MayManage(CreatorOf("Root", Ledger), last'.actor))
           => /\ last'.ok
              /\ ~Tracked("Root", Ledger') /\ ~InList("Root", ConfigList')
        /\ (CallOf("sweep") /\ Tracked("Root", Ledger)
               /\ WellFormed(RecordOf("Root", Ledger).expiration_date)
               /\ strptime(RecordOf("Root", Ledger).expiration_date) < now)
           => ~Tracked("Root", Ledger') /\ ~InList("Root", ConfigList') ]_vars

\* C30: with the sweep running again and again, time advancing and writes
\* succeeding infinitely often, every tracked account other than root whose
\* expiration_date is well formed and which is not renewed is eventually
\* absent from the config active list and from the tracking ledger.
C30_EventuallyRetired ==
    \A u \in LiveUsernames :
        (Tracked(u, Ledger) /\ WellFormed(RecordOf(u, Ledger).expiration_date))
        ~> (~Tracked(u, Ledger) /\ ~InList(u, ConfigList))

----------------------------------------------------------------------------
(* C31..C33 *)

\* C31: two /add commands for different identifiers by different actors do
\* not lose each other's update: once both handlers have returned, if both
\* replied success then both identifiers are in the config active list and in
\* the tracking ledger, in every order and interleaving of the two handlers.
C31_HandlersKeepUpdates ==
    ( /\ \A h \in Handlers : handlers[h].pc = "done" /\ handlers[h].ok
      /\ handlers[1].username # handlers[2].username
      /\ handlers[1].actor # handlers[2].actor )
    => \A h \in Handlers :
          /\ InList(handlers[h].username, ConfigList)
          /\ Tracked(handlers[h].username, Ledger)

\* C31 witness: both adds have succeeded, the second update's handler having
\* run its add_user first, while the ledger was empty at the start.
C31_Witness ==
    /\ \A h \in Handlers : handlers[h].pc = "done" /\ handlers[h].ok
    /\ handlers[1].username = "alice" /\ handlers[1].actor = 1001
    /\ handlers[2].username = "Root" /\ handlers[2].actor = ADMIN_ID
    /\ Ledger = << NewEntry("Root", ADMIN_ID, now), NewEntry("alice", 1001, now) >>
    /\ ConfigList = SeedList \o <<"Root", "alice">>

\* No element occurs twice in the sequence.
NoDuplicates(seq) ==
    \A i, j \in 1..Len(seq) : i # j => seq[i] # seq[j]
\* The identifiers of the ledger's records, in order.
LedgerNames == [i \in 1..Len(Ledger) |-> Ledger[i].username]

\* C32: from documents without duplicates, through every add, delete, renew
\* and sweep the config active list holds no identifier twice and the ledger
\* at most one record per identifier; add_user of an identifier already in the
\* active list fails with AlreadyExists and changes neither document.
C32_Uniqueness ==
    /\ [](NoDuplicates(ConfigList) /\ NoDuplicates(LedgerNames))
    /\ [][ (CallOf("add") /\ last'.user # "" /\ InList(last'.user, ConfigList))
           => /\ ~last'.ok /\ last'.outcome = "AlreadyExists"
              /\ cfgFile' = cfgFile /\ trkFile' = trkFile ]_vars

\* C32 witness: an account that add_user created over a stale record, and
\* that was added again, which failed.
C32_Witness ==
    /\ last.op = "add" /\ last.user = "alice" /\ last.outcome = "AlreadyExists"
    /\ InList("alice", ConfigList)
    /\ Tracked("alice", Ledger)
    /\ Len(Ledger) = 3

\* C33: an identifier that is in the config active list and has no tracking
\* record is never removed by a sweep, however much time has passed, and
\* cannot be renewed; it stays in the active list through every call other
\* than the super-admin's delete of it.
C33_UntrackedStay ==
    [][ \A u \in Usernames :
          (CallStep /\ InList(u, ConfigList) /\ ~Tracked(u, Ledger))
          => /\ last'.op = "sweep"
                => InList(u, ConfigList') /\ ~Tracked(u, Ledger')
             /\ (last'.op = "renew" /\ last'.user = u)
                => /\ ~last'.ok /\ last'.outcome = "NotFound"
                   /\ DocsUnchanged
             /\ ~(last'.op = "delete" /\ last'.user = u /\ last'.actor = ADMIN_ID)
                => InList(u, ConfigList') ]_vars

\* C33 witness: time has passed, a sweep has retired an expired account, and
\* an identifier an add_user left in the config list alone is still there.
C33_Witness ==
    /\ last.op = "sweep" /\ last.ok /\ now > 0
    /\ InList("alice", ConfigList) /\ ~Tracked("alice", Ledger)
    /\ InList("root", ConfigList) /\ ~Tracked("root", Ledger)

====
